---- MODULE Spec2Model ----
(***************************************************************************)
(* State-machine model of the investiq backend (abontha/investiq):         *)
(*   - FinRLService._get_or_train and its pipeline (finrl_integration.py)  *)
(*   - the lightweight /api/predict path and its model cache (predict.py)  *)
(*   - download_price_history and _align_length (yfinance_client.py)       *)
(*   - the pure helpers: _split_dataframes, _estimate_price_from_action,   *)
(*     _action_to_scalar, _build_price_comparison                          *)
(*   - _build_backtest_payload and _calculate_metrics                      *)
(*   - cleaning and feature engineering (dropna, ffill, length tests)      *)
(* Time is a discrete clock; one tick is an arbitrary positive duration.   *)
(***************************************************************************)
EXTENDS Integers, Sequences, FiniteSets, TLC

VARIABLES
    clock,       \* datetime.utcnow(), in ticks
    cache,       \* FinRLService._cache : a function from its keys to CacheEntry
    lock,        \* FinRLService._lock : None or the worker holding it
    call,        \* per worker: the locals of one _get_or_train invocation
    runs,        \* number of pipeline runs whose download has completed
    requests     \* number of _get_or_train invocations started so far

cacheVars == <<clock, cache, lock, call, runs, requests>>

VARIABLES
    fetchIn,     \* arguments of download_price_history and the provider's answer
    fetchOut     \* what download_price_history returned or raised

fetchVars == <<fetchIn, fetchOut>>

VARIABLES
    fileExists,  \* MODEL_PATH.exists()
    modelCache,  \* predict._model_cache : a function from its keys to a policy
    modelLock,   \* predict._model_lock : None or the worker holding it
    loads,       \* number of PPO.load calls that returned a policy
    job,         \* per worker: the locals of one /api/predict request
    predicts     \* number of /api/predict requests started so far

predictVars == <<fileExists, modelCache, modelLock, loads, job, predicts>>

VARIABLES
    splitIn,     \* arguments of _split_dataframes: the dates of df, the window
    splitOut     \* what _split_dataframes returned or raised

splitVars == <<splitIn, splitOut>>

VARIABLES
    sigIn,       \* the test closes, the ActionRecords and hmax
    sigOut       \* the predicted closes computed from them

sigVars == <<sigIn, sigOut>>

VARIABLES
    metIn,       \* arguments of _build_backtest_payload
    metOut       \* what _build_backtest_payload returned or raised

metVars == <<metIn, metOut>>

VARIABLES
    prepIn,      \* the raw bars of one ticker, the caller, the indicator columns
    prepOut      \* the frame handed on, or the exception raised

prepVars == <<prepIn, prepOut>>

vars == <<cacheVars, fetchVars, predictVars, splitVars, sigVars, metVars, prepVars>>

None == "None"

\* Python's None where a payload dictionary or a CacheEntry is expected
NoPayload == [kind |-> "None", symbol |-> "", run |-> 0, generated_at |-> 0]
NoEntry == [prediction |-> NoPayload, backtest |-> NoPayload, expires_at |-> 0]

----------------------------------------------------------------------------
(* Bounds of the model *)

MaxClock == 3
MaxRequests == 2
\* settings.cache_ttl_minutes expressed in clock ticks (configurable, > 0)
TTL == 2
\* longest timestamp array the provider returns
MaxLen == 2
MaxPredicts == 3
\* dates of a dataset are days 0..MaxDay; test windows are 1..MaxWindow days
MaxDay == 5
MaxWindow == 6
\* longest test partition of the signal model
MaxRows == 2
\* longest AccountRecord sequence of the metrics model
MaxPoints == 3
\* raw bars beyond the caller's minimum, bars that may carry a null, longest
\* run of leading rows an indicator column leaves empty
MaxExtra == 1
MaxNullBars == 2
MaxGap == 2

Workers == {"w1", "w2"}

\* raw symbols as they arrive in requests
Symbols == {"aapl", "AAPL", "MSFT"}

----------------------------------------------------------------------------
(* FinRLService: cache and pipeline *)

UpperIdentity(s) == s

\* str.upper() on the symbols of the model
Upper(s) ==
    CASE s = "aapl" -> "AAPL"
      [] s = "msft" -> "MSFT"
      [] OTHER -> s

\* the steps of _run_pipeline, in program order
Pipeline ==
    <<"download", "engineer", "split", "env_kwargs", "train", "trade",
      "prediction", "backtest">>

\* exception kinds each step can raise: FinRLException carries the kind of
\* its message, anything else is an unanticipated exception
Raises(step) ==
    CASE step = "download" -> {"NoData", "InsufficientData", "PipelineFailure"}
      [] step = "split" -> {"InsufficientData", "PipelineFailure"}
      [] step = "env_kwargs" -> {}
      [] OTHER -> {"PipelineFailure"}

IdleCall ==
    [pc |-> "idle", symbol |-> None, now |-> 0, end |-> 0, entry |-> NoEntry,
     steps |-> <<>>, run |-> 0, prediction |-> NoPayload,
     backtest |-> NoPayload, result |-> NoEntry, error |-> None]

CacheInit ==
    /\ clock = 0
    /\ cache = [k \in {} |-> NoEntry]
    /\ lock = None
    /\ call = [w \in Workers |-> IdleCall]
    /\ runs = 0
    /\ requests = 0

\* the wall clock advances
Tick ==
    /\ clock < MaxClock
    /\ clock' = clock + 1
    /\ UNCHANGED <<cache, lock, call, runs, requests>>

\* _get_or_train, before the first `with self._lock`
GetOrTrainBegin(w, s) ==
    /\ call[w].pc = "idle"
    /\ requests < MaxRequests
    /\ requests' = requests + 1
    /\ call' = [call EXCEPT ![w] =
                  [IdleCall EXCEPT !.pc = "lookup", !.symbol = Upper(s),
                                   !.now = clock]]
    /\ UNCHANGED <<clock, cache, lock, runs>>

\* threading.Lock.__enter__ : blocks while another worker holds the lock
AcquireLock(w, at, locked) ==
    /\ call[w].pc = at
    /\ lock = None
    /\ lock' = w
    /\ call' = [call EXCEPT ![w].pc = locked]
    /\ UNCHANGED <<clock, cache, runs, requests>>

LookupAcquire(w) == AcquireLock(w, "lookup", "lookup_locked")

IsFreshEarly(e, now) == e # NoEntry /\ e.expires_at > now + 1

IsFreshInclusive(e, now) == e # NoEntry /\ e.expires_at >= now

\* `entry and entry.expires_at > now`
IsFresh(e, now) == e # NoEntry /\ e.expires_at > now

\* dict.get(key)
Get(d, k) == IF k \in DOMAIN d THEN d[k] ELSE NoEntry

\* d[key] = value
Put(d, k, v) == [x \in DOMAIN d \cup {k} |-> IF x = k THEN v ELSE d[x]]

\* the lookup with the lock kept through the pipeline on a miss
LookupKeepLock(w) ==
    /\ call[w].pc = "lookup_locked"
    /\ lock = w
    /\ LET e == Get(cache, call[w].symbol) IN
         IF IsFresh(e, call[w].now)
           THEN /\ call' = [call EXCEPT ![w].pc = "done", ![w].entry = e,
                                        ![w].result = e]
                /\ lock' = None
           ELSE /\ call' = [call EXCEPT ![w].pc = Pipeline[1], ![w].entry = e,
                                        ![w].end = clock]
                /\ lock' = w
    /\ UNCHANGED <<clock, cache, runs, requests>>

\* the body of the first `with self._lock` block; leaving it releases the lock.
\* On a miss the next statement that reads shared state is
\* `end = datetime.utcnow()` of _download_market_data, taken in the same step.
Lookup(w) ==
    /\ call[w].pc = "lookup_locked"
    /\ lock = w
    /\ LET e == Get(cache, call[w].symbol) IN
         IF IsFresh(e, call[w].now)
           THEN call' = [call EXCEPT ![w].pc = "done", ![w].entry = e,
                                     ![w].result = e]
           ELSE call' = [call EXCEPT ![w].pc = Pipeline[1], ![w].entry = e,
                                     ![w].end = clock]
    /\ lock' = None
    /\ UNCHANGED <<clock, cache, runs, requests>>

RaiseAndEvict(w, kind) ==
    /\ call' = [call EXCEPT ![w].pc = "failed", ![w].error = kind,
                            ![w].end = 0,
                            ![w].steps = Append(call[w].steps, call[w].pc)]
    /\ cache' = [k \in DOMAIN cache \ {call[w].symbol} |-> cache[k]]
    /\ UNCHANGED <<clock, lock, runs, requests>>

\* an exception leaves _run_pipeline and _get_or_train: nothing catches it
\* before the route handler, so the statements after line 73 do not run
Raise(w, kind) ==
    /\ call' = [call EXCEPT ![w].pc = "failed", ![w].error = kind,
                            ![w].end = 0,
                            ![w].steps = Append(call[w].steps, call[w].pc)]
    /\ UNCHANGED <<clock, cache, lock, runs, requests>>

NextStep(step) ==
    LET i == CHOOSE j \in 1..Len(Pipeline) : Pipeline[j] = step
    IN  IF i < Len(Pipeline) THEN Pipeline[i + 1] ELSE "insert"

\* a step of _run_pipeline returns normally
StepReturns(w) ==
    [call[w] EXCEPT !.pc = NextStep(call[w].pc),
                    !.steps = Append(call[w].steps, call[w].pc)]

\* _download_market_data: yf.download is a network round trip, which takes
\* longer than the clock's resolution, so the clock has moved on from `end`
\* when it returns; each completed download is a distinct pipeline run
DownloadMarketData(w) ==
    /\ call[w].pc = "download"
    /\ clock > call[w].end
    /\ \/ /\ runs' = runs + 1
          /\ call' = [call EXCEPT ![w] =
                        [StepReturns(w) EXCEPT !.run = runs + 1, !.end = 0]]
          /\ UNCHANGED <<clock, cache, lock, requests>>
       \/ \E kind \in Raises("download") : Raise(w, kind)

\* the steps that only pass data on: _engineer_features, _split_dataframes,
\* _build_env_kwargs, _train_agent, _run_trading_loop
PipelineStep(w, step) ==
    /\ call[w].pc = step
    /\ \/ /\ call' = [call EXCEPT ![w] = StepReturns(w)]
          /\ UNCHANGED <<clock, cache, lock, runs, requests>>
       \/ \E kind \in Raises(step) : Raise(w, kind)

EngineerFeatures(w) == PipelineStep(w, "engineer")
SplitDataframesStep(w) == PipelineStep(w, "split")
BuildEnvKwargs(w) == PipelineStep(w, "env_kwargs")
TrainAgent(w) == PipelineStep(w, "train")
RunTradingLoop(w) == PipelineStep(w, "trade")

\* the payload dictionaries: the run they were computed from and generated_at
Payload(w, kind) ==
    [kind |-> kind, symbol |-> call[w].symbol, run |-> call[w].run,
     generated_at |-> clock]

BuildPredictionPayload(w) ==
    /\ call[w].pc = "prediction"
    /\ \/ /\ call' = [call EXCEPT ![w] =
                        [StepReturns(w) EXCEPT !.prediction = Payload(w, "prediction")]]
          /\ UNCHANGED <<clock, cache, lock, runs, requests>>
       \/ \E kind \in Raises("prediction") : Raise(w, kind)

BuildBacktestPayload(w) ==
    /\ call[w].pc = "backtest"
    /\ \/ /\ call' = [call EXCEPT ![w] =
                        [StepReturns(w) EXCEPT !.backtest = Payload(w, "backtest")]]
          /\ UNCHANGED <<clock, cache, lock, runs, requests>>
       \/ \E kind \in Raises("backtest") : Raise(w, kind)

\* `expires = now + timedelta(minutes=settings.cache_ttl_minutes)`, where
\* `now` is the value read on entry to _get_or_train
Expires(w) == call[w].now + TTL

\* an entry updated field by field: the backtest stored for the symbol stays
NewEntryKeepBacktest(w) ==
    [prediction |-> call[w].prediction,
     backtest |-> IF call[w].symbol \in DOMAIN cache
                    THEN cache[call[w].symbol].backtest ELSE call[w].backtest,
     expires_at |-> Expires(w)]

\* CacheEntry(prediction=prediction, backtest=backtest, expires_at=expires)
NewEntry(w) ==
    [prediction |-> call[w].prediction, backtest |-> call[w].backtest,
     expires_at |-> Expires(w)]

InsertAcquire(w) == AcquireLock(w, "insert", "insert_locked")

\* the body of the second `with self._lock` block, then `return new_entry`
Insert(w) ==
    /\ call[w].pc = "insert_locked"
    /\ lock = w
    /\ cache' = Put(cache, call[w].symbol, NewEntry(w))
    /\ call' = [call EXCEPT ![w].pc = "done", ![w].result = NewEntry(w)]
    /\ lock' = None
    /\ UNCHANGED <<clock, runs, requests>>

\* the invocation is over (returned or raised); the worker takes the next one
Return(w) ==
    /\ call[w].pc \in {"done", "failed"}
    /\ call' = [call EXCEPT ![w] = IdleCall]
    /\ UNCHANGED <<clock, cache, lock, runs, requests>>

CacheNext ==
    \/ Tick
    \/ \E w \in Workers, s \in Symbols : GetOrTrainBegin(w, s)
    \/ \E w \in Workers : LookupAcquire(w)
    \/ \E w \in Workers : Lookup(w)
    \/ \E w \in Workers : DownloadMarketData(w)
    \/ \E w \in Workers : EngineerFeatures(w)
    \/ \E w \in Workers : SplitDataframesStep(w)
    \/ \E w \in Workers : BuildEnvKwargs(w)
    \/ \E w \in Workers : TrainAgent(w)
    \/ \E w \in Workers : RunTradingLoop(w)
    \/ \E w \in Workers : BuildPredictionPayload(w)
    \/ \E w \in Workers : BuildBacktestPayload(w)
    \/ \E w \in Workers : InsertAcquire(w)
    \/ \E w \in Workers : Insert(w)
    \/ \E w \in Workers : Return(w)

----------------------------------------------------------------------------
(* yfinance_client: download_price_history *)

\* a JSON null / Python None inside a series; values are <<field, index>>
Null == <<"null", 0>>

\* dict.get(field) when the field is missing or null
NoSeries == [present |-> FALSE, values |-> <<>>]

Some(values) == [present |-> TRUE, values |-> values]

Nulls(length) == [i \in 1..length |-> Null]

AlignLengthNoTruncate(values, length) ==
    IF ~ values.present THEN Nulls(length)
    ELSE IF Len(values.values) >= length THEN values.values
    ELSE values.values \o Nulls(length - Len(values.values))

\* _align_length(values, length)
AlignLength(values, length) ==
    IF ~ values.present THEN Nulls(length)
    ELSE IF Len(values.values) = length THEN values.values
    ELSE IF Len(values.values) > length THEN SubSeq(values.values, 1, length)
    ELSE values.values \o Nulls(length - Len(values.values))

\* pd.DataFrame()
EmptyFrame ==
    [Date |-> <<>>, Open |-> <<>>, High |-> <<>>, Low |-> <<>>, Close |-> <<>>,
     AdjClose |-> <<>>, Volume |-> <<>>]

Returned(frame) == [raised |-> None, kind |-> None, frame |-> frame]

Raised(cls, kind) == [raised |-> cls, kind |-> kind, frame |-> EmptyFrame]

\* the DataFrame built from the first result of the chart payload
BuildFrame(result) ==
    LET n == Len(result.timestamp)
        closes == AlignLength(result.close, n)
    IN  [Date |-> result.timestamp,
         Open |-> AlignLength(result.open, n),
         High |-> AlignLength(result.high, n),
         Low |-> AlignLength(result.low, n),
         Close |-> closes,
         AdjClose |-> AlignLength(IF result.adjclose.present
                                    THEN result.adjclose ELSE Some(closes), n),
         Volume |-> AlignLength(result.volume, n)]

\* download_price_history(symbol, start, end), given the provider's answer
\* resp = [transport, status, json, error, results]
DownloadPriceHistory(start, end, resp) ==
    IF end <= start THEN Raised("ValueError", "InvalidRange")
    ELSE IF resp.transport # "ok" THEN Raised("RuntimeError", "Unreachable")
    ELSE IF resp.status = 429 THEN Raised("RuntimeError", "RateLimited")
    ELSE IF resp.status >= 400 THEN Raised("RuntimeError", "Unreachable")
    ELSE IF ~ resp.json THEN Raised("RuntimeError", "Unreachable")
    ELSE IF resp.error # None THEN Raised("RuntimeError", "ProviderError")
    ELSE IF resp.results = <<>> THEN Returned(EmptyFrame)
    ELSE IF resp.results[1].timestamp = <<>> THEN Returned(EmptyFrame)
    ELSE Returned(BuildFrame(resp.results[1]))

\* the number of session.get calls one call of download_price_history makes
SessionGets(start, end) == IF end <= start THEN 0 ELSE 1

\* the message of the exception download_price_history raises; the provider's
\* error object is kept as its description, "" when it has none (the
\* back quotes of the first message are left out)
Message(result, resp) ==
    CASE result.kind = "InvalidRange" ->
           "end must be greater than start when fetching history."
      [] result.kind = "RateLimited" ->
           "Yahoo Finance rate limit hit. Please wait a moment and try again."
      [] result.kind = "Unreachable" -> "Unable to reach Yahoo Finance."
      [] result.kind = "ProviderError" ->
           IF resp.error # "" THEN resp.error ELSE "Unknown Yahoo Finance error."
      [] OTHER -> ""

(* the provider's answers explored *)

\* a provider series for one field: missing, or 1..MaxLen+1 values; the
\* close series may also be empty, and the close and adjusted-close series
\* may start with a null
SeriesOf(f) ==
    {NoSeries}
      \cup {Some([i \in 1..len |-> <<f, i>>]) :
              len \in (IF f = "close" THEN 0 ELSE 1)..(MaxLen + 1)}
      \cup {Some([i \in 1..len |-> IF i = 1 THEN Null ELSE <<f, i>>]) :
              len \in IF f \in {"close", "adjclose"} THEN 1..MaxLen ELSE {}}

Timestamps(n) == [i \in 1..n |-> i]

Results(longest) ==
    {[timestamp |-> Timestamps(n), open |-> o, high |-> h, low |-> l,
      close |-> c, volume |-> v, adjclose |-> a] :
        n \in 0..longest, o \in SeriesOf("open"), h \in SeriesOf("high"),
        l \in SeriesOf("low"), c \in SeriesOf("close"),
        v \in SeriesOf("volume"), a \in SeriesOf("adjclose")}

Answer(transport, status, json, error, results) ==
    [transport |-> transport, status |-> status, json |-> json,
     error |-> error, results |-> results]

\* a result with n complete bars
FullResult(n) ==
    [timestamp |-> Timestamps(n),
     open |-> Some([i \in 1..n |-> <<"open", i>>]),
     high |-> Some([i \in 1..n |-> <<"high", i>>]),
     low |-> Some([i \in 1..n |-> <<"low", i>>]),
     close |-> Some([i \in 1..n |-> <<"close", i>>]),
     volume |-> Some([i \in 1..n |-> <<"volume", i>>]),
     adjclose |-> Some([i \in 1..n |-> <<"adjclose", i>>])]

\* one answer of each shape the code tells apart
ShapedAnswers ==
    {Answer("error", 0, FALSE, None, <<>>),
     Answer("ok", 429, FALSE, None, <<>>),
     Answer("ok", 429, TRUE, "Too Many Requests", <<>>),
     Answer("ok", 500, FALSE, None, <<>>),
     Answer("ok", 404, TRUE, "No data found, symbol may be delisted", <<>>),
     Answer("ok", 200, FALSE, None, <<>>),
     Answer("ok", 200, TRUE, "No data found, symbol may be delisted", <<>>),
     Answer("ok", 200, TRUE, "", <<>>),
     Answer("ok", 200, TRUE, None, <<>>),
     Answer("ok", 200, TRUE, None, <<FullResult(0)>>),
     Answer("ok", 200, TRUE, None, <<FullResult(MaxLen)>>)}

FetchInit ==
    /\ fetchIn \in
         {[start |-> st, end |-> en, resp |-> r] :
            st \in 0..1, en \in 0..1, r \in ShapedAnswers}
         \cup {[start |-> 0, end |-> 1,
                resp |-> Answer("ok", 200, TRUE, None, <<r>>)] : r \in Results(MaxLen)}
    /\ fetchOut = Raised(None, "pending")

FetchIdle ==
    /\ fetchIn = None
    /\ fetchOut = None

\* one call of download_price_history
Download ==
    /\ fetchOut = Raised(None, "pending")
    /\ LET result == DownloadPriceHistory(fetchIn.start, fetchIn.end, fetchIn.resp)
       IN  fetchOut' = [raised |-> result.raised, kind |-> result.kind,
                        frame |-> result.frame,
                        queries |-> SessionGets(fetchIn.start, fetchIn.end),
                        message |-> Message(result, fetchIn.resp)]
    /\ UNCHANGED fetchIn

FetchNext == Download

----------------------------------------------------------------------------
(* routers/predict.py: the lightweight prediction path *)

\* len(frame) after dropna() when the provider returned bars: just below or
\* at the threshold of _fetch_market_data (the frames above are far shorter)
MinRows == 30

RowCounts == {MinRows - 1, MinRows}

\* the answers of the provider a request can meet
PredictAnswers == ShapedAnswers

IdleJob ==
    [pc |-> "idle", model |-> 0, steps |-> <<>>, exc |-> None, kind |-> None,
     status |-> 0]

PredictInit ==
    /\ fileExists \in BOOLEAN
    /\ modelCache = [k \in {} |-> 0]
    /\ modelLock = None
    /\ loads = 0
    /\ job = [w \in Workers |-> IdleJob]
    /\ predicts = 0

\* train_model.py writes the artifact: trained_model.save(str(output))
SaveModel ==
    /\ ~ fileExists
    /\ fileExists' = TRUE
    /\ UNCHANGED <<modelCache, modelLock, loads, job, predicts>>

\* the artifact is removed from disk by the operator
RemoveModel ==
    /\ fileExists
    /\ fileExists' = FALSE
    /\ UNCHANGED <<modelCache, modelLock, loads, job, predicts>>

\* the `except` clauses of predict(): exception class -> HTTP status
Surface(cls) ==
    CASE cls = "FileNotFoundError" -> 500
      [] cls = "ValueError" -> 400
      [] OTHER -> 500

\* an exception leaves _run_prediction and predict() turns it into a response
Fails(w, step, cls, kind) ==
    [job[w] EXCEPT !.pc = "failed", !.exc = cls, !.kind = kind,
                   !.status = Surface(cls), !.steps = Append(job[w].steps, step)]

Passes(w, step, next) ==
    [job[w] EXCEPT !.pc = next, !.steps = Append(job[w].steps, step)]

\* predict(): run_in_threadpool(_run_prediction, payload.symbol)
PredictBegin(w) ==
    /\ job[w].pc = "idle"
    /\ predicts < MaxPredicts
    /\ predicts' = predicts + 1
    /\ job' = [job EXCEPT ![w] = [IdleJob EXCEPT !.pc = "exists"]]
    /\ UNCHANGED <<fileExists, modelCache, modelLock, loads>>

\* _load_model: `if not MODEL_PATH.exists(): raise FileNotFoundError`
ModelPathExists(w) ==
    /\ job[w].pc = "exists"
    /\ job' = [job EXCEPT ![w] =
                 IF fileExists THEN Passes(w, "exists", "model_lock")
                 ELSE Fails(w, "exists", "FileNotFoundError", "ModelMissing")]
    /\ UNCHANGED <<fileExists, modelCache, modelLock, loads, predicts>>

\* _load_model: `with _model_lock:` blocks while another worker holds it
ModelLockAcquire(w) ==
    /\ job[w].pc = "model_lock"
    /\ modelLock = None
    /\ modelLock' = w
    /\ job' = [job EXCEPT ![w].pc = "model_locked"]
    /\ UNCHANGED <<fileExists, modelCache, loads, predicts>>

LoadModelUnguarded(w) ==
    /\ job[w].pc = "model_locked"
    /\ modelLock = w
    /\ modelLock' = None
    /\ IF fileExists
         THEN /\ loads' = loads + 1
              /\ modelCache' = [k \in {"ppo"} |-> loads + 1]
              /\ job' = [job EXCEPT ![w] =
                           [Passes(w, "load", "fetch") EXCEPT !.model = loads + 1]]
         ELSE /\ job' = [job EXCEPT ![w] =
                           Fails(w, "load", "FileNotFoundError", "ModelMissing")]
              /\ UNCHANGED <<loads, modelCache>>
    /\ UNCHANGED <<fileExists, predicts>>

\* _load_model: the body of `with _model_lock`; leaving it, by return or by
\* the exception of PPO.load on a path that no longer exists, releases the lock
LoadModel(w) ==
    /\ job[w].pc = "model_locked"
    /\ modelLock = w
    /\ modelLock' = None
    /\ IF "ppo" \in DOMAIN modelCache
         THEN /\ job' = [job EXCEPT ![w] =
                           [Passes(w, "cached", "fetch") EXCEPT
                              !.model = modelCache["ppo"]]]
              /\ UNCHANGED <<loads, modelCache>>
         ELSE IF fileExists
         THEN /\ loads' = loads + 1
              /\ modelCache' = [k \in {"ppo"} |-> loads + 1]
              /\ job' = [job EXCEPT ![w] =
                           [Passes(w, "load", "fetch") EXCEPT !.model = loads + 1]]
         ELSE /\ job' = [job EXCEPT ![w] =
                           Fails(w, "load", "FileNotFoundError", "ModelMissing")]
              /\ UNCHANGED <<loads, modelCache>>
    /\ UNCHANGED <<fileExists, predicts>>

\* _fetch_market_data: RuntimeError of download_price_history is re-raised as
\* ValueError; an empty or short frame raises ValueError.  `start` is
\* LOOKBACK_DAYS before `end`.
FetchOutcome(resp, rows) ==
    LET data == DownloadPriceHistory(0, 1, resp) IN
      IF data.raised = "RuntimeError" THEN Raised("ValueError", data.kind)
      ELSE IF data.raised # None THEN data
      ELSE IF data.frame.Date = <<>> THEN Raised("ValueError", "NoData")
      ELSE IF rows < MinRows THEN Raised("ValueError", "InsufficientData")
      ELSE data

FetchMarketData(w) ==
    /\ job[w].pc = "fetch"
    /\ \E resp \in PredictAnswers, rows \in RowCounts :
         LET got == FetchOutcome(resp, rows) IN
           job' = [job EXCEPT ![w] =
                     IF got.raised = None THEN Passes(w, "fetch", "engineer")
                     ELSE Fails(w, "fetch", got.raised, got.kind)]
    /\ UNCHANGED <<fileExists, modelCache, modelLock, loads, predicts>>

\* a step of _run_prediction after the fetch: returns, or raises something
\* nobody anticipated
LightStep(w, step, next) ==
    /\ job[w].pc = step
    /\ \/ job' = [job EXCEPT ![w] = Passes(w, step, next)]
       \/ job' = [job EXCEPT ![w] = Fails(w, step, "Exception", "PipelineFailure")]
    /\ UNCHANGED <<fileExists, modelCache, modelLock, loads, predicts>>

\* _engineer_features(raw_df)
EngineerFeaturesLight(w) == LightStep(w, "engineer", "drl_prediction")

\* DRLAgent.DRL_prediction and the PredictionResponse built from it
RunPrediction(w) ==
    /\ job[w].pc = "drl_prediction"
    /\ \/ job' = [job EXCEPT ![w] =
                    [Passes(w, "drl_prediction", "done") EXCEPT !.status = 200]]
       \/ job' = [job EXCEPT ![w] =
                    Fails(w, "drl_prediction", "Exception", "PipelineFailure")]
    /\ UNCHANGED <<fileExists, modelCache, modelLock, loads, predicts>>

\* the response has been sent; the worker takes the next request
PredictReturn(w) ==
    /\ job[w].pc \in {"done", "failed"}
    /\ job' = [job EXCEPT ![w] = IdleJob]
    /\ UNCHANGED <<fileExists, modelCache, modelLock, loads, predicts>>

PredictNext ==
    \/ SaveModel
    \/ RemoveModel
    \/ \E w \in Workers : PredictBegin(w)
    \/ \E w \in Workers : ModelPathExists(w)
    \/ \E w \in Workers : ModelLockAcquire(w)
    \/ \E w \in Workers : LoadModel(w)
    \/ \E w \in Workers : FetchMarketData(w)
    \/ \E w \in Workers : EngineerFeaturesLight(w)
    \/ \E w \in Workers : RunPrediction(w)
    \/ \E w \in Workers : PredictReturn(w)

----------------------------------------------------------------------------
(* FinRLService._split_dataframes *)

Max(S) == CHOOSE x \in S : \A y \in S : y <= x

Min(S) == CHOOSE x \in S : \A y \in S : x <= y

\* finrl's data_split(df, start, end): the rows with start <= date < end
\* (the half-open range of a Dataset)
DataSplit(df, start, end) == {d \in df : start <= d /\ d < end}

\* _split_dataframes(df) with settings.test_window_days = window; a row of
\* df is identified by its date
SplitDataframes(df, window) ==
    LET last_date == Max(df)
        split_date == last_date - window
        train == DataSplit(df, Min(df), split_date)
        test == DataSplit(df, split_date, last_date)
    IN  IF split_date <= Min(df)
          THEN [raised |-> "InsufficientData", train |-> {}, test |-> {}]
        ELSE IF train = {} \/ test = {}
          THEN [raised |-> "InsufficientData", train |-> {}, test |-> {}]
        ELSE [raised |-> None, train |-> train, test |-> test]

SplitInit ==
    /\ splitIn \in
         {[df |-> df, window |-> n] :
            df \in (SUBSET (0..MaxDay)) \ {{}}, n \in 1..MaxWindow}
    /\ splitOut = [raised |-> "pending", train |-> {}, test |-> {}]

SplitIdle ==
    /\ splitIn = None
    /\ splitOut = None

\* one call of _split_dataframes
Split ==
    /\ splitOut.raised = "pending"
    /\ splitOut' = SplitDataframes(splitIn.df, splitIn.window)
    /\ UNCHANGED splitIn

SplitNext == Split

----------------------------------------------------------------------------
(* Signal translation: _action_to_scalar, _estimate_price_from_action,     *)
(* _estimate_price, _extract_action, _build_price_comparison               *)
(*                                                                         *)
(* Closes are integers in units of 0.00001; a signal is an integer in      *)
(* hundredths; a predicted close is an integer in units of 0.000000001,    *)
(* in which close * (1 + signal * 0.01) = close * (10000 + signal) is      *)
(* exact.                                                                  *)

Scalar(v) == [tag |-> "scalar", v |-> <<v>>]

Sequence(vs) == [tag |-> "sequence", v |-> vs]

\* _action_to_scalar(action_value)
ActionToScalar(action_value) ==
    IF action_value.tag = "sequence"
      THEN IF action_value.v # <<>> THEN action_value.v[1] ELSE 0
      ELSE action_value.v[1]

Abs(x) == IF x < 0 THEN 0 - x ELSE x

TanhUnbounded(action, hmax) == (100 * action) \div hmax

\* np.tanh(action / hmax) in hundredths: tabulated at 1/4, 1/2, 1, 2 and 3
\* (rounded toward zero) and exactly +-1.0 from 20 on, as in float64
Tanh(action, hmax) ==
    LET a == Abs(action)
        t == IF a >= 20 * hmax THEN 100
             ELSE IF a >= 3 * hmax THEN 99
             ELSE IF a >= 2 * hmax THEN 96
             ELSE IF a >= hmax THEN 76
             ELSE IF 2 * a >= hmax THEN 46
             ELSE IF 4 * a >= hmax THEN 24
             ELSE 0
    IN  IF action < 0 THEN 0 - t ELSE t

\* a close as a predicted close
Exact(close) == close * 10000

\* round(value, 4): to the nearest multiple of 0.0001, ties to even
Round4(value) ==
    LET q == 100000
        lo == (value \div q) * q
        r == value - lo
    IN  IF 2 * r < q THEN lo
        ELSE IF 2 * r > q THEN lo + q
        ELSE IF (value \div q) % 2 = 0 THEN lo ELSE lo + q

\* an optional float: None or a value
NoAction == [some |-> FALSE, v |-> 0]

SomeAction(v) == [some |-> TRUE, v |-> v]

\* _estimate_price_from_action(reference_close, action, hmax) and
\* predict._estimate_price(latest_close, action, hmax)
EstimatePriceFromAction(reference_close, action, hmax) ==
    IF ~ action.some THEN Exact(reference_close)
    ELSE Round4(reference_close * (10000 + Tanh(action.v, hmax)))

\* _extract_action(actions, -1)
ExtractAction(actions) ==
    IF actions = <<>> THEN NoAction
    ELSE SomeAction(ActionToScalar(actions[Len(actions)].actions))

\* _build_prediction_payload: predicted_next_close
PredictedNextClose(closes, actions, hmax) ==
    EstimatePriceFromAction(closes[Len(closes)].close, ExtractAction(actions), hmax)

\* _run_prediction: `last_action = ... if not actions.empty else 0.0`, then
\* predicted_close
PredictedClose(closes, actions, hmax) ==
    LET last_action ==
          IF actions # <<>> THEN ActionToScalar(actions[Len(actions)].actions)
          ELSE 0
    IN  EstimatePriceFromAction(closes[Len(closes)].close,
                                SomeAction(last_action), hmax)

\* the signal column with fillna(0.0) only
MergedSignalNoFill(closes, actions, hmax, i) ==
    LET here == {j \in 1..Len(actions) : actions[j].date = closes[i].date} IN
      IF here # {}
        THEN Tanh(ActionToScalar(actions[CHOOSE j \in here : TRUE].actions), hmax)
        ELSE 0

\* the signal column after the left merge on date, ffill() and fillna(0.0)
RECURSIVE MergedSignal(_, _, _, _)
MergedSignal(closes, actions, hmax, i) ==
    LET here == {j \in 1..Len(actions) : actions[j].date = closes[i].date} IN
      IF here # {}
        THEN Tanh(ActionToScalar(actions[CHOOSE j \in here : TRUE].actions), hmax)
      ELSE IF i = 1 THEN 0
      ELSE MergedSignal(closes, actions, hmax, i - 1)

\* _build_price_comparison(actions, test_df, hmax); closes are the rows of
\* test_df in ascending date order
BuildPriceComparison(actions, closes, hmax) ==
    [i \in 1..Len(closes) |->
       LET shifted == IF i = 1 THEN closes[1].close ELSE closes[i - 1].close IN
         [date |-> closes[i].date,
          actual_close |-> closes[i].close,
          predicted_close |->
            shifted * (10000 + MergedSignal(closes, actions, hmax, i))]]

(* the inputs explored *)

\* closes: 0.00004, 1.00005 and 1.5
RefCloses == {4, 100005, 150000}

RawActions ==
    {Scalar(0 - 2000), Scalar(30), Sequence(<<>>),
     Sequence(<<2000, 0 - 100>>), Sequence(<<0 - 50>>)}

\* `hmax` of the environment configuration, and the smallest hmax
Hmaxes == {1, 100}

\* ActionRecords of a trajectory over dates 1..n: at most one per date, in
\* date order
ActionRecords(n) ==
    LET Missing == [tag |-> "missing", v |-> <<>>]
        Choices == [1..n -> RawActions \cup {Missing}]
        Dated(c) == {d \in 1..n : c[d] # Missing}
        RECURSIVE Build(_, _)
        Build(c, d) ==
            IF d = 0 THEN <<>>
            ELSE IF d \in Dated(c)
              THEN Append(Build(c, d - 1), [date |-> d, actions |-> c[d]])
              ELSE Build(c, d - 1)
    IN  {Build(c, n) : c \in Choices}

SigPending == [done |-> {}, full |-> 0, light |-> 0, rows |-> <<>>]

SigInit ==
    /\ sigIn \in
         UNION {{[closes |-> [i \in 1..n |-> [date |-> i, close |-> cs[i]]],
                  actions |-> as, hmax |-> h] :
                   cs \in [1..n -> RefCloses], as \in ActionRecords(n),
                   h \in Hmaxes} : n \in 1..MaxRows}
    /\ sigOut = SigPending

SigIdle ==
    /\ sigIn = None
    /\ sigOut = None

\* the full path's single-step prediction
EstimateFull ==
    /\ "full" \notin sigOut.done
    /\ sigOut' = [sigOut EXCEPT
                    !.done = @ \cup {"full"},
                    !.full = PredictedNextClose(sigIn.closes, sigIn.actions, sigIn.hmax)]
    /\ UNCHANGED sigIn

\* the lightweight path's single-step prediction
EstimateLight ==
    /\ "light" \notin sigOut.done
    /\ sigOut' = [sigOut EXCEPT
                    !.done = @ \cup {"light"},
                    !.light = PredictedClose(sigIn.closes, sigIn.actions, sigIn.hmax)]
    /\ UNCHANGED sigIn

\* the backtest series
PriceComparison ==
    /\ "rows" \notin sigOut.done
    /\ sigOut' = [sigOut EXCEPT
                    !.done = @ \cup {"rows"},
                    !.rows = BuildPriceComparison(sigIn.actions, sigIn.closes, sigIn.hmax)]
    /\ UNCHANGED sigIn

SigNext == EstimateFull \/ EstimateLight \/ PriceComparison

----------------------------------------------------------------------------
(* FinRLService._build_backtest_payload and _calculate_metrics              *)
(*                                                                         *)
(* Account values are integers in units of 0.0025 (a quarter cent);        *)
(* percentages are integers in hundredths of a percent.  A ratio is kept   *)
(* as a fraction [n, d] with d > 0 until it is rounded.                    *)

\* the integer nearest to n / d; a decimal tie has no exact float64 value,
\* so round() may go either way: `up` says which
Round(n, d, up) ==
    LET q == n \div d
        r == n - q * d
    IN  IF 2 * r < d THEN q
        ELSE IF 2 * r > d THEN q + 1
        ELSE IF up THEN q + 1 ELSE q

Less(f, g) == f.n * g.d < g.n * f.d

\* account_memory["account_value"].astype(float)
AccountValues(account_memory) ==
    [i \in 1..Len(account_memory) |-> account_memory[i].account_value]

FinalEquityOfFirst(series) == series[1]

\* float(series.iloc[-1])
FinalEquity(series) == series[Len(series)]

\* final_equity / float(series.iloc[0]) - 1
TotalReturn(series) == [n |-> FinalEquity(series) - series[1], d |-> series[1]]

\* series.pct_change().dropna()
PctChange(series) ==
    [i \in 1..(Len(series) - 1) |->
       [n |-> series[i + 1] - series[i], d |-> series[i]]]

\* `not returns.empty and returns.std() > 0`: the sample deviation of one
\* return is NaN, that of equal returns is 0
HasSharpe(returns) ==
    /\ Len(returns) >= 2
    /\ \E i, j \in 1..Len(returns) : Less(returns[i], returns[j])

RollingMaxOverall(series, i) == Max({series[j] : j \in 1..Len(series)})

\* series.cummax() at position i
RollingMax(series, i) == Max({series[j] : j \in 1..i})

\* (series - rolling_max) / rolling_max at position i
Drawdown(series, i) ==
    [n |-> series[i] - RollingMax(series, i), d |-> RollingMax(series, i)]

\* drawdowns.min()
MinDrawdown(series) ==
    LET all == {Drawdown(series, i) : i \in 1..Len(series)}
    IN  CHOOSE f \in all : \A g \in all : ~ Less(g, f)

MetricFields == {"final_equity", "total_return_pct", "max_drawdown_pct"}

\* _calculate_metrics(account_memory); sharpe_ratio is kept as "0.0" or
\* "annualized" (mean / std * sqrt(252), rounded to 3 decimals)
CalculateMetrics(account_memory, ties) ==
    LET series == AccountValues(account_memory)
        total_return == TotalReturn(series)
        max_drawdown == MinDrawdown(series)
    IN  [final_equity |-> 4 * Round(FinalEquity(series), 4, ties["final_equity"]),
         total_return_pct |->
           Round(total_return.n * 10000, total_return.d, ties["total_return_pct"]),
         sharpe_ratio |->
           IF HasSharpe(PctChange(series)) THEN "annualized" ELSE "0.0",
         max_drawdown_pct |->
           Round(max_drawdown.n * 10000, max_drawdown.d, ties["max_drawdown_pct"])]

\* the equity_curve list of _build_backtest_payload
EquityCurve(account_memory) ==
    [i \in 1..Len(account_memory) |->
       [date |-> account_memory[i].date,
        equity |-> account_memory[i].account_value]]

\* _build_backtest_payload(symbol, account_memory, actions, test_df, env_kwargs)
BacktestPayload(symbol, account_memory, actions, test_df, hmax, ties) ==
    [symbol |-> symbol,
     equity_curve |-> EquityCurve(account_memory),
     price_comparison |-> BuildPriceComparison(actions, test_df, hmax),
     metrics |-> CalculateMetrics(account_memory, ties)]

(* the inputs explored *)

\* account values 50.00, 75.0025, 100.00, 100.0025 and 100.005
Equities == {20000, 30001, 40000, 40001, 40002}

\* the AccountRecords of a simulation: one per step, in date order
AccountMemories(longest) ==
    UNION {{[i \in 1..n |-> [date |-> i, account_value |-> vs[i]]] :
              vs \in [1..n -> Equities]} : n \in 1..longest}

MetPending == [done |-> FALSE]

MetInit ==
    /\ metIn \in
         {[symbol |-> "AAPL", account_memory |-> am,
           test_df |-> <<[date |-> 1, close |-> c]>>, actions |-> as,
           hmax |-> 100] :
            am \in AccountMemories(MaxPoints), c \in RefCloses,
            as \in ActionRecords(1)}
    /\ metOut = MetPending

MetIdle ==
    /\ metIn = None
    /\ metOut = None

\* one call of _build_backtest_payload
Backtest ==
    /\ ~ metOut.done
    /\ \E ties \in [MetricFields -> BOOLEAN] :
         metOut' = [done |-> TRUE,
                    payload |-> BacktestPayload(metIn.symbol, metIn.account_memory,
                                                metIn.actions, metIn.test_df,
                                                metIn.hmax, ties)]
    /\ UNCHANGED metIn

MetNext == Backtest

----------------------------------------------------------------------------
(* Cleaning and feature engineering: _download_market_data (from dropna   *)
(* on), predict._fetch_market_data (from dropna on) and _engineer_features *)
(*                                                                         *)
(* A row is [date, bar, ind]: `bar` stands for its six price cells and is  *)
(* null when one of them is, `ind` are its indicator cells, none before    *)
(* feature engineering.  A known cell holds the date it was computed for.  *)
(* Rows arrive in date order, on which sort_values("date") changes nothing. *)

NullCell == 0

\* `len(frame) < 100` of the full path
MinRowsFull == 100

\* number of indicator columns kept apart
NumIndicators == 2

Minimum(path) == IF path = "full" THEN MinRowsFull ELSE MinRows

Columns(row) == {0} \cup DOMAIN row.ind

Cell(row, c) == IF c = 0 THEN row.bar ELSE row.ind[c]

IsComplete(row) == \A c \in Columns(row) : Cell(row, c) # NullCell

\* DataFrame.dropna()
DropNa(frame) == SelectSeq(frame, IsComplete)

\* DataFrame.ffill(): each null cell takes the last known value above it
Ffill(frame) ==
    LET LastKnown(c, i) ==
          LET known == {j \in 1..i : Cell(frame[j], c) # NullCell}
          IN  IF known = {} THEN NullCell ELSE Cell(frame[Max(known)], c)
    IN  [i \in 1..Len(frame) |->
           [date |-> frame[i].date,
            bar |-> LastKnown(0, i),
            ind |-> [c \in DOMAIN frame[i].ind |-> LastKnown(c, i)]]]

\* a column of the indicator capability leaves its first `gap` rows empty
\* and, with `hole`, one row after its first known value
Missing(column, i) == i <= column.gap \/ (column.hole /\ i = column.gap + 2)

\* fe.preprocess_data(raw_df): the indicator columns are those of the
\* external FeatureEngineer
PreprocessData(frame, columns) ==
    [i \in 1..Len(frame) |->
       [frame[i] EXCEPT !.ind =
          [c \in 1..NumIndicators |->
             IF Missing(columns[c], i) THEN NullCell ELSE frame[i].date]]]

\* frame.dropna().sort_values("date") and the length test after it
CleanFrame(raw, minimum) ==
    LET frame == DropNa(raw) IN
      IF frame = <<>> \/ Len(frame) < minimum
        THEN [pc |-> "failed", error |-> "InsufficientData", frame |-> <<>>]
        ELSE [pc |-> "engineer", error |-> None, frame |-> frame]

\* _engineer_features(raw_df)
Engineer(raw_df, columns) == DropNa(Ffill(PreprocessData(raw_df, columns)))

(* the inputs explored *)

\* n bars in date order, those at `nulls` with a null price cell
RawBars(n, nulls) ==
    [i \in 1..n |->
       [date |-> i, bar |-> IF i \in nulls THEN NullCell ELSE i, ind |-> <<>>]]

IndicatorColumns == [gap : 0..MaxGap, hole : BOOLEAN]

PrepInit ==
    /\ prepIn \in
         {[path |-> p, raw |-> RawBars(Minimum(p) + extra, nulls),
           columns |-> cols] :
            p \in {"full", "light"}, extra \in (0 - 1)..MaxExtra,
            nulls \in SUBSET (1..MaxNullBars),
            cols \in [1..NumIndicators -> IndicatorColumns]}
    /\ prepOut = [pc |-> "clean", error |-> None, frame |-> <<>>]

PrepIdle ==
    /\ prepIn = None
    /\ prepOut = None

\* the tail of _download_market_data and of predict._fetch_market_data
CleanBars ==
    /\ prepOut.pc = "clean"
    /\ prepOut' = CleanFrame(prepIn.raw, Minimum(prepIn.path))
    /\ UNCHANGED prepIn

\* _engineer_features; its result goes to _split_dataframes or to the
\* trading environment
AddFeatures ==
    /\ prepOut.pc = "engineer"
    /\ prepOut' = [pc |-> "done", error |-> None,
                   frame |-> Engineer(prepOut.frame, prepIn.columns)]
    /\ UNCHANGED prepIn

PrepNext == CleanBars \/ AddFeatures

----------------------------------------------------------------------------
(* Specifications *)

\* the cache is not in use: its clock is off
CacheIdle ==
    /\ clock = 0 - 1
    /\ cache = None
    /\ lock = None
    /\ call = None
    /\ runs = 0
    /\ requests = 0

PredictIdle ==
    /\ fileExists = FALSE
    /\ modelCache = None
    /\ modelLock = None
    /\ loads = 0
    /\ job = None
    /\ predicts = 0 - 1

\* FinRLService under concurrent requests
Init == CacheInit /\ FetchIdle /\ PredictIdle /\ SplitIdle /\ SigIdle /\ MetIdle /\ PrepIdle

Next == CacheNext /\ UNCHANGED <<fetchVars, predictVars, splitVars, sigVars, metVars, prepVars>>

Spec == Init /\ [][Next]_vars

\* /api/predict under concurrent requests
InitPredict == CacheIdle /\ FetchIdle /\ PredictInit /\ SplitIdle /\ SigIdle /\ MetIdle /\ PrepIdle

NextPredict == PredictNext /\ UNCHANGED <<cacheVars, fetchVars, splitVars, sigVars, metVars, prepVars>>

SpecPredict == InitPredict /\ [][NextPredict]_vars

\* download_price_history on every answer of the provider
InitFetch == CacheIdle /\ FetchInit /\ PredictIdle /\ SplitIdle /\ SigIdle /\ MetIdle /\ PrepIdle

NextFetch == FetchNext /\ UNCHANGED <<cacheVars, predictVars, splitVars, sigVars, metVars, prepVars>>

SpecFetch == InitFetch /\ [][NextFetch]_vars

\* _split_dataframes on every dataset and window
InitSplit == CacheIdle /\ FetchIdle /\ PredictIdle /\ SplitInit /\ SigIdle /\ MetIdle /\ PrepIdle

NextSplit == SplitNext /\ UNCHANGED <<cacheVars, fetchVars, predictVars, sigVars, metVars, prepVars>>

SpecSplit == InitSplit /\ [][NextSplit]_vars

\* the signal translation on every input
InitSignal == CacheIdle /\ FetchIdle /\ PredictIdle /\ SplitIdle /\ SigInit /\ MetIdle /\ PrepIdle

NextSignal == SigNext /\ UNCHANGED <<cacheVars, fetchVars, predictVars, splitVars, metVars, prepVars>>

SpecSignal == InitSignal /\ [][NextSignal]_vars

\* _build_backtest_payload on every equity curve
InitMetrics == CacheIdle /\ FetchIdle /\ PredictIdle /\ SplitIdle /\ SigIdle /\ MetInit /\ PrepIdle

NextMetrics == MetNext /\ UNCHANGED <<cacheVars, fetchVars, predictVars, splitVars, sigVars, prepVars>>

SpecMetrics == InitMetrics /\ [][NextMetrics]_vars

\* cleaning and feature engineering on every raw frame
InitPrep ==
    CacheIdle /\ FetchIdle /\ PredictIdle /\ SplitIdle /\ SigIdle /\ MetIdle /\ PrepInit

NextPrep ==
    PrepNext /\ UNCHANGED <<cacheVars, fetchVars, predictVars, splitVars, sigVars, metVars>>

SpecPrep == InitPrep /\ [][NextPrep]_vars

\* the two services side by side: requests to the full path use only the
\* prediction cache and its lock, requests to /api/predict only the model
\* cache and its lock, so a behaviour of the process is one of each
InitLocks == Init \/ InitPredict

NextLocks ==
    \/ clock >= 0 /\ Next
    \/ predicts >= 0 /\ NextPredict

SpecLocks == InitLocks /\ [][NextLocks]_vars

----------------------------------------------------------------------------
(* Claims about the cache, checked under Spec *)

\* case folding used to compare symbols in the statements below
Lower(s) ==
    CASE s = "AAPL" -> "aapl"
      [] s = "MSFT" -> "msft"
      [] OTHER -> s

\* worker w leaves the first locked block in this step
LeavesLookup(w) == call[w].pc = "lookup_locked" /\ call'[w].pc # "lookup_locked"

\* worker w completes the second locked block in this step
Inserts(w) == call[w].pc = "insert_locked" /\ call'[w].pc = "done"

\* C1: a call that performs its lookup while an entry for its symbol is
\* stored and the clock is before the entry's expires_at returns exactly that
\* entry, has run no pipeline step, raises nothing and leaves the cache (and
\* the number of pipeline runs) unchanged.
C1_CacheHit ==
    [][\A w \in Workers :
         LET e == Get(cache, call[w].symbol) IN
           (LeavesLookup(w) /\ e # NoEntry /\ clock < e.expires_at)
             => /\ call'[w].pc = "done"
                /\ call'[w].result = e
                /\ call'[w].steps = <<>>
                /\ call'[w].error = None
                /\ cache' = cache
                /\ runs' = runs]_vars

\* a call has returned a stored entry without running the pipeline while
\* another call's run produced (and returned) the same payloads
C1_Witness ==
    \E w \in Workers, v \in Workers :
        /\ w # v
        /\ call[w].pc = "done" /\ call[w].steps = <<>>
        /\ call[v].pc = "done" /\ call[v].steps = Pipeline
        /\ call[w].result = call[v].result
        /\ call[w].now > call[v].now

\* C2 (as claimed): every stored entry expires TTL after the instant it was
\* inserted.
C2_ExpiresAtInsertPlusTTL ==
    [][\A w \in Workers :
         Inserts(w) => cache'[call[w].symbol].expires_at = clock + TTL]_vars

\* C3: a call that began when the stored entry's expires_at had been reached
\* treats the entry as absent (it goes on to the pipeline and leaves the
\* cache alone); when such a call inserts, it has run the whole pipeline and
\* both generated_at of its payloads are strictly greater than those of the
\* expired entry it saw; a key never leaves the cache, and an entry changes
\* only by an insert for its key.
C3_ExpiredReplaced ==
    [][/\ \A w \in Workers :
            LET e == Get(cache, call[w].symbol) IN
              (LeavesLookup(w) /\ e # NoEntry /\ call[w].now >= e.expires_at)
                => /\ call'[w].pc = "download"
                   /\ call'[w].entry = e
                   /\ cache' = cache
       /\ \A w \in Workers :
            (Inserts(w) /\ call[w].entry # NoEntry)
              => /\ call[w].steps = Pipeline
                 /\ cache'[call[w].symbol].prediction.generated_at
                      > call[w].entry.prediction.generated_at
                 /\ cache'[call[w].symbol].backtest.generated_at
                      > call[w].entry.backtest.generated_at
       /\ \A k \in DOMAIN cache :
            /\ k \in DOMAIN cache'
            /\ cache'[k] # cache[k]
                 => \E w \in Workers : Inserts(w) /\ call[w].symbol = k]_vars

\* a call that saw an expired entry has replaced it
C3_Witness ==
    \E w \in Workers :
        /\ call[w].pc = "done"
        /\ call[w].entry # NoEntry
        /\ call[w].steps = Pipeline
        /\ cache[call[w].symbol] = call[w].result
        /\ cache[call[w].symbol] # call[w].entry

\* C4: the cache never holds two keys that differ only in case; every call
\* that missed runs the pipeline itself (its payloads carry its own run, and
\* no two calls share a run); an insert stores the inserting call's own
\* entry, which is also what that call returns.
C4_LastWriterWins ==
    [][/\ \A k1 \in DOMAIN cache, k2 \in DOMAIN cache :
            Lower(k1) = Lower(k2) => k1 = k2
       /\ \A w \in Workers, v \in Workers :
            (w # v /\ call[w].run # 0) => call[w].run # call[v].run
       /\ \A w \in Workers :
            Inserts(w)
              => /\ call[w].steps = Pipeline
                 /\ call[w].prediction.run = call[w].run
                 /\ call[w].backtest.run = call[w].run
                 /\ cache'[call[w].symbol].prediction = call[w].prediction
                 /\ cache'[call[w].symbol].backtest = call[w].backtest
                 /\ call'[w].result = cache'[call[w].symbol]]_vars

\* two calls missed for the same symbol while both were in flight, each ran
\* the pipeline and returned its own result; the cache holds the later one
C4_Witness ==
    \E w \in Workers, v \in Workers :
        /\ w # v
        /\ call[w].symbol = call[v].symbol
        /\ call[w].pc = "done" /\ call[w].steps = Pipeline
        /\ call[v].pc = "done" /\ call[v].steps = Pipeline
        /\ call[w].entry = call[v].entry
        /\ call[w].result # call[v].result
        /\ cache[call[w].symbol] = call[v].result

IsPrefixOfPipeline(steps) ==
    /\ Len(steps) <= Len(Pipeline)
    /\ steps = SubSeq(Pipeline, 1, Len(steps))

\* C5: when a step of the pipeline raises, the call ends with that error
\* and no result, the steps it ran are an initial part of the pipeline ending
\* with the one that raised, the cache is exactly as it was, and the failed
\* call does nothing afterwards but return to its caller.
C5_FailFast ==
    [][\A w \in Workers :
         /\ (call[w].pc # "failed" /\ call'[w].pc = "failed")
              => /\ call[w].pc \in {Pipeline[i] : i \in 1..Len(Pipeline)}
                 /\ call'[w].error \in Raises(call[w].pc)
                 /\ call'[w].result = NoEntry
                 /\ IsPrefixOfPipeline(call'[w].steps)
                 /\ call'[w].steps[Len(call'[w].steps)] = call[w].pc
                 /\ cache' = cache
         /\ call[w].pc = "failed"
              => /\ call'[w] \in {call[w], IdleCall}
                 /\ call[w].result = NoEntry
                 /\ (cache' # cache => ~ Inserts(w))]_vars

\* a call that saw an expired entry has failed and the entry is still stored
C5_Witness ==
    \E w \in Workers :
        /\ call[w].pc = "failed"
        /\ call[w].entry # NoEntry
        /\ Get(cache, call[w].symbol) = call[w].entry

----------------------------------------------------------------------------
(* Claims about download_price_history, checked under SpecFetch *)

\* what alignment must give at position i of a field, for timestamps of
\* length n
AlignedAt(series, i) ==
    IF series.present /\ i <= Len(series.values) THEN series.values[i] ELSE Null

IsAligned(column, series, n) ==
    /\ Len(column) = n
    /\ \A i \in 1..n : column[i] = AlignedAt(series, i)

\* C8: when download_price_history returns N > 0 bars, each of
\* Open/High/Low/Close/Volume has length N, carries the provider's first
\* min(len, N) values in order and null beyond them; Adj Close is the
\* provider's adjusted-close series under the same rule when present, and
\* the aligned Close otherwise.
C8_Alignment ==
    (fetchOut.kind = None /\ fetchOut.frame.Date # <<>>)
      => LET r == fetchIn.resp.results[1]
             n == Len(r.timestamp)
             f == fetchOut.frame
         IN  /\ n > 0
             /\ f.Date = r.timestamp
             /\ IsAligned(f.Open, r.open, n)
             /\ IsAligned(f.High, r.high, n)
             /\ IsAligned(f.Low, r.low, n)
             /\ IsAligned(f.Close, r.close, n)
             /\ IsAligned(f.Volume, r.volume, n)
             /\ IF r.adjclose.present
                  THEN IsAligned(f.AdjClose, r.adjclose, n)
                  ELSE f.AdjClose = f.Close

\* bars were returned for a close series shorter than the timestamps, a
\* longer open series and no adjusted-close series
C8_Witness ==
    /\ fetchOut.kind = None
    /\ Len(fetchOut.frame.Date) = MaxLen
    /\ LET r == fetchIn.resp.results[1] IN
         /\ r.close.present /\ Len(r.close.values) < MaxLen
         /\ r.open.present /\ Len(r.open.values) > MaxLen
         /\ ~ r.adjclose.present
         /\ ~ r.volume.present
    /\ fetchOut.frame.Close[MaxLen] = Null

FetchDone == fetchOut.kind # "pending"

Failed(kind) == fetchOut.raised # None /\ fetchOut.kind = kind

\* C15: a call with end <= start fails with InvalidRange before any query
\* is issued; otherwise exactly one query is issued and its response yields
\* exactly one outcome: RateLimited for a 429, Unreachable for a transport
\* failure or a non-JSON body, ProviderError with the provider's description
\* for a JSON body carrying an error object whatever the HTTP status, an
\* empty dataset and no error for an empty result set or timestamp array,
\* and N aligned bars for anything else.
C15_OutcomeClassification ==
    FetchDone =>
      LET r == fetchIn.resp IN
        IF fetchIn.end <= fetchIn.start
          THEN Failed("InvalidRange") /\ fetchOut.queries = 0
        ELSE /\ fetchOut.queries = 1
             /\ IF r.transport # "ok" THEN Failed("Unreachable")
                ELSE IF r.status = 429 THEN Failed("RateLimited")
                ELSE IF ~ r.json THEN Failed("Unreachable")
                ELSE IF r.error # None
                  THEN /\ Failed("ProviderError")
                       /\ r.error # "" => fetchOut.message = r.error
                ELSE IF r.results = <<>> \/ r.results[1].timestamp = <<>>
                  THEN fetchOut.raised = None /\ fetchOut.frame = EmptyFrame
                ELSE /\ fetchOut.raised = None
                     /\ Len(fetchOut.frame.Date) = Len(r.results[1].timestamp)

----------------------------------------------------------------------------
(* Claims about /api/predict, checked under SpecPredict *)

Upstream == {"RateLimited", "Unreachable", "ProviderError"}

CallerCorrectable == {"InvalidRange", "NoData", "InsufficientData"}

Internal == {"ModelMissing", "PipelineFailure"}

\* the statuses that answer caller-correctable failures of the fetch
ClientStatuses ==
    {Surface(FetchOutcome(a, n).raised) :
       a \in {x \in PredictAnswers : FetchOutcome(x, MinRows - 1).kind \in CallerCorrectable},
       n \in {MinRows - 1}}

\* C6 (as claimed): a failed request whose fetch failed upstream is answered
\* with a status different from the one that answers caller-correctable
\* failures, and ModelMissing and unanticipated failures are answered 500.
C6_UpstreamDistinguishable ==
    \A w \in Workers :
        job[w].pc = "failed"
          => /\ job[w].kind \in Upstream => job[w].status \notin ClientStatuses
             /\ job[w].kind \in Internal => job[w].status = 500

\* C7: at most one load returns a policy; every request that holds a policy
\* holds the cached one; a request that takes the lock while nothing is
\* cached and the artifact is on disk loads and caches it, and one that finds
\* a cached policy loads nothing; a request whose existence check finds no
\* artifact fails with ModelMissing (status 500) without fetching anything.
C7_LoadedOnce ==
    [][/\ loads' <= 1
       /\ \A w \in Workers :
            job'[w].model # 0
              => "ppo" \in DOMAIN modelCache' /\ job'[w].model = modelCache'["ppo"]
       /\ \A w \in Workers :
            (job[w].pc = "model_locked" /\ job'[w].pc # "model_locked")
              => IF "ppo" \in DOMAIN modelCache
                   THEN /\ loads' = loads /\ modelCache' = modelCache
                        /\ job'[w].model = modelCache["ppo"]
                   ELSE fileExists
                          => /\ loads' = loads + 1
                             /\ "ppo" \in DOMAIN modelCache'
                             /\ job'[w].model = modelCache'["ppo"]
       /\ \A w \in Workers :
            (job[w].pc = "exists" /\ job'[w].pc # "exists" /\ ~ fileExists)
              => /\ job'[w].pc = "failed"
                 /\ job'[w].kind = "ModelMissing"
                 /\ job'[w].status = 500
                 /\ job'[w].steps = <<"exists">>
       /\ \A w \in Workers :
            job'[w].kind = "ModelMissing"
              => \A i \in 1..Len(job'[w].steps) : job'[w].steps[i] # "fetch"]_vars

\* one request loaded the policy while another waited for the lock, and the
\* other then got the cached policy without loading
C7_Witness ==
    \E w \in Workers, v \in Workers :
        /\ job[w].steps = <<"exists", "load">>
        /\ job[v].steps = <<"exists", "cached">>
        /\ job[w].model = job[v].model
        /\ loads = 1

----------------------------------------------------------------------------
(* Claims about _split_dataframes, checked under SpecSplit *)

\* C9 (as claimed): with splitDate = maxDate - windowDays, the call fails
\* exactly when splitDate <= minDate or one of the partitions
\* [minDate, splitDate) and [splitDate, maxDate] is empty; otherwise train and
\* test are exactly those partitions, so they are disjoint, cover the dataset
\* (the row dated maxDate included) and train precedes test.
C9_Partition ==
    splitOut.raised # "pending"
      => LET df == splitIn.df
             splitDate == Max(df) - splitIn.window
             train == {d \in df : Min(df) <= d /\ d < splitDate}
             test == {d \in df : splitDate <= d /\ d <= Max(df)}
         IN  IF splitDate <= Min(df) \/ train = {} \/ test = {}
               THEN splitOut.raised = "InsufficientData"
               ELSE /\ splitOut.raised = None
                    /\ splitOut.train = train
                    /\ splitOut.test = test
                    /\ splitOut.train \cap splitOut.test = {}
                    /\ splitOut.train \cup splitOut.test = df
                    /\ Max(df) \in splitOut.test
                    /\ \A a \in splitOut.train, b \in splitOut.test : a < b

----------------------------------------------------------------------------
(* Claims about the signal translation, checked under SpecSignal *)

LatestClose == sigIn.closes[Len(sigIn.closes)].close

\* the close a row of the backtest series is predicted from
ReferenceClose(i) ==
    IF i = 1 THEN sigIn.closes[1].close ELSE sigIn.closes[i - 1].close

\* |predicted / reference - 1| <= 0.01
WithinOnePercent(predicted, reference) ==
    Abs(predicted - Exact(reference)) * 100 <= Exact(reference)

\* |predicted - reference| <= 0.01 * reference + 0.00005
WithinOnePercentRounded(predicted, reference) ==
    Abs(predicted - Exact(reference)) * 100 <= Exact(reference) + 50000 * 100

\* C10 (as claimed): both single-step predictions and every row of the
\* backtest series are within 1% of their reference close, and with no
\* ActionRecord at all both single-step predictions equal the reference close.
C10_WithinOnePercent ==
    /\ "full" \in sigOut.done
         => /\ WithinOnePercent(sigOut.full, LatestClose)
            /\ sigIn.actions = <<>> => sigOut.full = Exact(LatestClose)
    /\ "light" \in sigOut.done
         => /\ WithinOnePercent(sigOut.light, LatestClose)
            /\ sigIn.actions = <<>> => sigOut.light = Exact(LatestClose)
    /\ "rows" \in sigOut.done
         => \A i \in 1..Len(sigOut.rows) :
              WithinOnePercent(sigOut.rows[i].predicted_close, ReferenceClose(i))

\* C10 (amended): every row of the backtest series is within 1% of its
\* reference close; both single-step predictions are multiples of 0.0001
\* within 1% of the reference close plus half of 0.0001; with no ActionRecord
\* the full path returns the reference close itself and the lightweight path
\* the reference close rounded to 4 decimals.
C10_WithinOnePercentRounded ==
    /\ "full" \in sigOut.done
         => /\ WithinOnePercentRounded(sigOut.full, LatestClose)
            /\ IF sigIn.actions = <<>>
                 THEN sigOut.full = Exact(LatestClose)
                 ELSE sigOut.full % 100000 = 0
    /\ "light" \in sigOut.done
         => /\ WithinOnePercentRounded(sigOut.light, LatestClose)
            /\ sigOut.light % 100000 = 0
            /\ sigIn.actions = <<>>
                 => Abs(sigOut.light - Exact(LatestClose)) * 2 <= 100000
    /\ "rows" \in sigOut.done
         => /\ Len(sigOut.rows) = Len(sigIn.closes)
            /\ \A i \in 1..Len(sigOut.rows) :
                 WithinOnePercent(sigOut.rows[i].predicted_close, ReferenceClose(i))

\* all three were computed for a saturating action on the latest date whose
\* rounded single-step prediction is more than 1% away from the close
C10_Witness ==
    /\ sigOut.done = {"full", "light", "rows"}
    /\ sigIn.actions # <<>>
    /\ Abs(ActionToScalar(sigIn.actions[Len(sigIn.actions)].actions)) >= 20 * sigIn.hmax
    /\ ~ WithinOnePercent(sigOut.full, LatestClose)
    /\ Len(sigOut.rows) = MaxRows

\* the signal of a test-partition date: that of the date's own ActionRecord,
\* else of the latest earlier ActionRecord, else 0
SignalOf(date) ==
    LET upTo == {j \in 1..Len(sigIn.actions) : sigIn.actions[j].date <= date} IN
      IF upTo = {} THEN 0
      ELSE LET last == CHOOSE j \in upTo :
                         \A k \in upTo : sigIn.actions[k].date <= sigIn.actions[j].date
           IN  Tanh(ActionToScalar(sigIn.actions[last].actions), sigIn.hmax)

\* C11: priceComparison has one row per test-partition date in ascending date
\* order; each row's actualClose is that date's close and its predictedClose
\* is referenceClose x (1 + signal x 0.01), where referenceClose is the prior
\* date's close (the first date its own) and signal is that of the date's own
\* action, else of the nearest earlier date that has one, else 0.
C11_BacktestSeries ==
    "rows" \in sigOut.done
      => /\ Len(sigOut.rows) = Len(sigIn.closes)
         /\ \A i \in 1..Len(sigOut.rows) :
              /\ sigOut.rows[i].date = sigIn.closes[i].date
              /\ i > 1 => sigOut.rows[i - 1].date < sigOut.rows[i].date
              /\ sigOut.rows[i].actual_close = sigIn.closes[i].close
              /\ sigOut.rows[i].predicted_close =
                   ReferenceClose(i) * (10000 + SignalOf(sigIn.closes[i].date))

\* the series was built for a partition whose last date has no ActionRecord
\* of its own and carries a non-zero signal forward from an earlier date,
\* predicted from a prior close that differs from its own
C11_Witness ==
    /\ "rows" \in sigOut.done
    /\ Len(sigOut.rows) = MaxRows
    /\ \A j \in 1..Len(sigIn.actions) : sigIn.actions[j].date # MaxRows
    /\ SignalOf(MaxRows) # 0
    /\ sigIn.closes[MaxRows].close # sigIn.closes[MaxRows - 1].close
    /\ sigOut.rows[MaxRows].predicted_close # Exact(sigIn.closes[MaxRows - 1].close)

----------------------------------------------------------------------------
(* Claims about the backtest payload and its metrics, checked under       *)
(* SpecMetrics                                                             *)

\* the equity curve is non-empty and has one point per AccountRecord, in
\* ascending date order
OnePointPerRecord ==
    LET curve == metOut.payload.equity_curve IN
      /\ curve # <<>>
      /\ Len(curve) = Len(metIn.account_memory)
      /\ \A i \in 1..Len(curve) :
           /\ curve[i].date = metIn.account_memory[i].date
           /\ curve[i].equity = metIn.account_memory[i].account_value
           /\ i > 1 => curve[i - 1].date < curve[i].date

LastEquity ==
    metOut.payload.equity_curve[Len(metOut.payload.equity_curve)].equity

\* C12 (as claimed): the equity curve is non-empty, has one point per
\* AccountRecord in ascending date order, and metrics.finalEquity equals the
\* equity of the last point.
C12_FinalEquityIsLast ==
    metOut.done
      => /\ OnePointPerRecord
         /\ metOut.payload.metrics.final_equity = LastEquity

\* C12 (amended): the equity curve is non-empty, has one point per
\* AccountRecord in ascending date order, and metrics.finalEquity is the
\* equity of the last point rounded to 2 decimals: a multiple of 0.01 at most
\* 0.005 away from it.
C12_FinalEquityRounded ==
    metOut.done
      => /\ OnePointPerRecord
         /\ metOut.payload.metrics.final_equity % 4 = 0
         /\ Abs(metOut.payload.metrics.final_equity - LastEquity) <= 2

\* a payload was built from the longest curve, whose last value is not a
\* whole number of cents and differs from its first value
C12_Witness ==
    /\ metOut.done
    /\ Len(metOut.payload.equity_curve) = MaxPoints
    /\ LastEquity % 4 # 0
    /\ LastEquity # metOut.payload.equity_curve[1].equity
    /\ metOut.payload.metrics.final_equity # LastEquity

EquityAt(i) == metIn.account_memory[i].account_value

\* max(equity_0..equity_i)
PeakAt(i) ==
    CHOOSE m \in {EquityAt(j) : j \in 1..i} : \A j \in 1..i : EquityAt(j) <= m

Points == 1..Len(metIn.account_memory)

MonotonicallyIncreasing ==
    \A i \in Points : i > 1 => EquityAt(i - 1) <= EquityAt(i)

\* pct (in hundredths of a percent) is within `slack` / 2 hundredths of
\* 100 x n / d
Near(pct, n, d, slack) == Abs(pct * d - n * 10000) * 2 <= slack * d

\* pct is within slack / 2 hundredths of 100 x min_i (equity_i - peak_i) / peak_i
NearWorstDrawdown(pct, slack) ==
    /\ \E i \in Points : Near(pct, EquityAt(i) - PeakAt(i), PeakAt(i), slack)
    /\ \A i \in Points :
         (pct * PeakAt(i) - (EquityAt(i) - PeakAt(i)) * 10000) * 2 <= slack * PeakAt(i)

\* what C13 says beside the two formulas
DrawdownShape(m) ==
    /\ m.max_drawdown_pct <= 0
    /\ Len(metIn.account_memory) = 1 => m.max_drawdown_pct = 0
    /\ MonotonicallyIncreasing => m.max_drawdown_pct = 0
    /\ AccountValues(metIn.account_memory) = <<40000, 20000>>
         => m.total_return_pct = 0 - 5000 /\ m.max_drawdown_pct = 0 - 5000

\* C13 (as claimed): maxDrawdownPct = 100 x min_i (equity_i - peak_i) / peak_i,
\* which is <= 0 and is 0 for a curve of length 1 and for a monotonically
\* increasing curve; totalReturnPct = (last / first - 1) x 100; the curve
\* [100, 50] yields -50.0 and -50.0.
C13_DrawdownAndReturn ==
    metOut.done
      => LET m == metOut.payload.metrics IN
           /\ NearWorstDrawdown(m.max_drawdown_pct, 0)
           /\ Near(m.total_return_pct,
                   EquityAt(Len(metIn.account_memory)) - EquityAt(1), EquityAt(1), 0)
           /\ DrawdownShape(m)

\* C13 (amended): maxDrawdownPct and totalReturnPct are those two values
\* rounded to 2 decimals (at most 0.005 away from them); maxDrawdownPct is
\* <= 0 and is 0 for a curve of length 1 and for a monotonically increasing
\* curve; the curve [100, 50] yields -50.0 and -50.0.
C13_DrawdownAndReturnRounded ==
    metOut.done
      => LET m == metOut.payload.metrics IN
           /\ NearWorstDrawdown(m.max_drawdown_pct, 1)
           /\ Near(m.total_return_pct,
                   EquityAt(Len(metIn.account_memory)) - EquityAt(1), EquityAt(1), 1)
           /\ DrawdownShape(m)

\* metrics were computed for a curve that rises to a peak and then falls by
\* a fraction that has no exact 2-decimal percentage
C13_Witness ==
    /\ metOut.done
    /\ Len(metIn.account_memory) >= 3
    /\ EquityAt(1) < EquityAt(2)
    /\ EquityAt(3) < EquityAt(2)
    /\ metOut.payload.metrics.max_drawdown_pct < 0
    /\ ~ NearWorstDrawdown(metOut.payload.metrics.max_drawdown_pct, 0)

----------------------------------------------------------------------------
(* Claims about the two locks, checked under SpecLocks *)

CacheInUse == clock >= 0

ModelInUse == predicts >= 0

\* positions of a worker inside a `with` block
CacheLocked == {"lookup_locked", "insert_locked"}

\* positions at which a worker does blocking work of the pipeline
PipelineWork == {Pipeline[i] : i \in 1..Len(Pipeline)}

LightWork == {"fetch", "engineer", "drl_prediction"}

\* the worker is inside `with _model_lock` and the artifact is not cached:
\* the statement it executes is PPO.load
LoadingPolicy(w) ==
    job[w].pc = "model_locked" /\ "ppo" \notin DOMAIN modelCache

\* the holder of a lock is never waiting for anything: its next step, which
\* releases the lock, can be taken
HolderProceeds ==
    /\ CacheInUse /\ lock # None => ENABLED (Lookup(lock) \/ Insert(lock))
    /\ ModelInUse /\ modelLock # None => ENABLED LoadModel(modelLock)

\* what holds of the locks outside the artifact load
LockScopes ==
    /\ CacheInUse
         => \A w \in Workers :
              /\ call[w].pc \in PipelineWork => lock # w
              /\ lock = w <=> call[w].pc \in CacheLocked
    /\ ModelInUse
         => \A w \in Workers :
              /\ job[w].pc \in LightWork => modelLock # w
              /\ modelLock = w <=> job[w].pc = "model_locked"
    /\ HolderProceeds

\* C14 (as claimed): a worker doing a network fetch, feature engineering, a
\* Trainer call, metrics or the Policy artifact load holds neither lock; each
\* lock is held only inside its `with` block and is released on every way
\* out, so a waiting request is never blocked by an in-flight pipeline.
C14_NoLockAcrossWork ==
    /\ LockScopes
    /\ ModelInUse => \A w \in Workers : LoadingPolicy(w) => modelLock # w

\* C14 (amended): a worker doing a network fetch, feature engineering, a
\* Trainer call or metrics holds neither lock; the cache lock is held only
\* for the map lookup or insert; the model lock is held for the whole
\* load-if-absent block, the Policy artifact load included; each lock is
\* released on every way out, so a waiting request is never blocked by an
\* in-flight pipeline.
C14_LockScopes ==
    /\ LockScopes
    /\ ModelInUse => \A w \in Workers : LoadingPolicy(w) => modelLock = w

\* one worker is inside the lookup block while the other is training
C14_Witness ==
    /\ CacheInUse
    /\ \E w, v \in Workers :
         /\ call[w].pc = "train"
         /\ call[v].pc = "lookup_locked"
         /\ lock = v

----------------------------------------------------------------------------
(* Claims about cleaning and feature engineering, checked under SpecPrep *)

\* the cleaned bars with their indicator columns, forward-filled: the ordered
\* sequence the last step drops rows from
Filled == Ffill(PreprocessData(DropNa(prepIn.raw), prepIn.columns))

\* `result` is `frame` without its first k rows
DropsLeadingRows(frame, result, k) ==
    /\ k \in 0..Len(frame)
    /\ result = SubSeq(frame, k + 1, Len(frame))

\* C16: the dataset handed on after dropping bars with a null price value,
\* adding indicator columns, forward-filling and dropping the rows still
\* incomplete has no null field, lacks only a leading prefix of the ordered
\* sequence, and has at least the caller's minimum row count (100 on the
\* full path, 30 on the lightweight path); when fewer rows remain the call
\* fails with InsufficientData instead of proceeding.
C16_PreprocessorPostcondition ==
    /\ prepOut.pc = "done"
         => /\ \A i \in 1..Len(prepOut.frame) : IsComplete(prepOut.frame[i])
            /\ \E k \in 0..Len(Filled) : DropsLeadingRows(Filled, prepOut.frame, k)
            /\ Len(prepOut.frame) >= Minimum(prepIn.path)
    /\ prepOut.pc = "failed" => prepOut.error = "InsufficientData"
    /\ prepOut.pc \in {"engineer", "done"}
         => Len(DropNa(prepIn.raw)) >= Minimum(prepIn.path)

----------------------------------------------------------------------------
(* Claims about the pairing of payloads, checked under Spec *)

\* both payloads of entry e are for symbol k and come from one pipeline run
SameRun(e, k) ==
    /\ e.prediction.kind = "prediction"
    /\ e.backtest.kind = "backtest"
    /\ e.prediction.symbol = k
    /\ e.backtest.symbol = k
    /\ e.prediction.run # 0
    /\ e.prediction.run = e.backtest.run

\* C17: under any interleaving of concurrent misses, the prediction and the
\* backtest held in a cache entry, and those returned by any call, come from
\* one and the same pipeline run; an entry changes only by an insert that
\* replaces it whole with the payloads of the inserting call's run.
C17_EntryPairing ==
    [][/\ \A k \in DOMAIN cache' : SameRun(cache'[k], k)
       /\ \A w \in Workers :
            call'[w].pc = "done" => SameRun(call'[w].result, call'[w].symbol)
       /\ \A k \in DOMAIN cache' :
            (k \notin DOMAIN cache \/ cache'[k] # cache[k])
              => \E w \in Workers :
                   /\ Inserts(w)
                   /\ call[w].symbol = k
                   /\ cache'[k].prediction.run = call[w].run
                   /\ cache'[k].backtest.run = call[w].run]_vars

\* two calls missed for one symbol and ran the pipeline concurrently; the
\* entry the first stored was replaced by the second, and the cache holds
\* both payloads of the second run
C17_Witness ==
    \E w \in Workers, v \in Workers :
        /\ call[w].pc = "done" /\ call[v].pc = "done"
        /\ call[w].symbol = call[v].symbol
        /\ call[w].run # 0 /\ call[v].run # 0 /\ call[w].run # call[v].run
        /\ call[w].result.backtest.run = call[w].run
        /\ cache[call[v].symbol].prediction.run = call[v].run
        /\ cache[call[v].symbol].backtest.run = call[v].run

====
